---- MODULE Spec2Model ----
(***************************************************************************)
(* Model of homonyms/caddy-cf: the Cloudflare IP range source              *)
(* (plugins/cloudflare_source.go) and the dynamic_remote_ip matcher.       *)
(*                                                                         *)
(* Text is modelled as sequences of one-character strings.  Addresses are  *)
(* scaled down: an IPv4 literal is NumFields4 fields separated by ".", an  *)
(* IPv6 literal is NumGroups6 groups separated by ":" (with "::" elision), *)
(* and every field or group is one base-4 digit, i.e. two bits (the real   *)
(* widths are 4 x 8 and 8 x 16 bits).                                      *)
(***************************************************************************)
EXTENDS Integers, Sequences, FiniteSets, TLC

\* ------------------------------------------------------------------ bounds
NumFields4 == 2
NumGroups6 == 3
NumReaders == 1
MaxFailures == 2

\* ------------------------------------------------------------ text helpers
Digits == {"0", "1", "2", "3"}
DigitVal == ("0" :> 0) @@ ("1" :> 1) @@ ("2" :> 2) @@ ("3" :> 3)
DecDigits == {"0", "1", "2", "3", "4", "5", "6", "7", "8", "9"}
DecVal == ("0" :> 0) @@ ("1" :> 1) @@ ("2" :> 2) @@ ("3" :> 3) @@ ("4" :> 4)
          @@ ("5" :> 5) @@ ("6" :> 6) @@ ("7" :> 7) @@ ("8" :> 8) @@ ("9" :> 9)

Pow2(n) == 2 ^ n
Min(a, b) == IF a < b THEN a ELSE b

\* bytealg.IndexByteString: first position of c in s, 0 when absent
IndexByte(s, c) ==
  IF \E i \in 1..Len(s) : s[i] = c
  THEN CHOOSE i \in 1..Len(s) : s[i] = c /\ \A j \in 1..(i - 1) : s[j] # c
  ELSE 0

\* last position of c in s, 0 when absent
LastIndexByte(s, c) ==
  IF \E i \in 1..Len(s) : s[i] = c
  THEN CHOOSE i \in 1..Len(s) : s[i] = c /\ \A j \in (i + 1)..Len(s) : s[j] # c
  ELSE 0

Take(s, n) == SubSeq(s, 1, n)
Drop(s, n) == SubSeq(s, n + 1, Len(s))

\* strings.Split(s, c)
RECURSIVE SplitOn(_, _)
SplitOn(s, c) ==
  LET i == IndexByte(s, c)
  IN  IF i = 0 THEN <<s>> ELSE <<Take(s, i - 1)>> \o SplitOn(Drop(s, i), c)

\* ---------------------------------------------------------------- netip
NumFields(fam) == IF fam = "v4" THEN NumFields4 ELSE NumGroups6
BitLen(fam) == 2 * NumFields(fam)
Sep(fam) == IF fam = "v4" THEN "." ELSE ":"

NoAddr == [err |-> TRUE]
Addr(fam, val) == [err |-> FALSE, fam |-> fam, val |-> val, zone |-> <<>>]
WithZone(a, zone) == IF a.err THEN a ELSE [a EXCEPT !.zone = zone]

\* value of a sequence of one-digit fields, most significant first
RECURSIVE FieldsVal(_)
FieldsVal(fs) ==
  IF Len(fs) = 0 THEN 0
  ELSE 4 * FieldsVal(Take(fs, Len(fs) - 1)) + DigitVal[fs[Len(fs)][1]]

IsField(f) == Len(f) = 1 /\ f[1] \in Digits

\* netip.parseIPv4: exactly NumFields4 digit fields separated by "."
ParseIPv4(s) ==
  LET fs == SplitOn(s, ".")
  IN  IF Len(fs) = NumFields4 /\ \A i \in 1..Len(fs) : IsField(fs[i])
      THEN Addr("v4", FieldsVal(fs))
      ELSE NoAddr

\* a possibly empty ":"-separated list of groups
GroupList(s) == IF Len(s) = 0 THEN <<>> ELSE SplitOn(s, ":")

Zeros(n) == [i \in 1..n |-> <<"0">>]

\* position of the first "::" in s, 0 when absent
Ellipsis(s) ==
  IF \E i \in 1..(Len(s) - 1) : s[i] = ":" /\ s[i + 1] = ":"
  THEN CHOOSE i \in 1..(Len(s) - 1) :
         /\ s[i] = ":" /\ s[i + 1] = ":"
         /\ \A j \in 1..(i - 1) : ~(s[j] = ":" /\ s[j + 1] = ":")
  ELSE 0

\* the address part of netip.parseIPv6: NumGroups6 groups, or fewer with one
\* "::" standing for at least one group of zeros
ParseIPv6Groups(s) ==
  LET e == Ellipsis(s)
  IN  IF e = 0
      THEN LET gs == GroupList(s)
           IN  IF Len(gs) = NumGroups6 /\ \A i \in 1..Len(gs) : IsField(gs[i])
               THEN Addr("v6", FieldsVal(gs))
               ELSE NoAddr
      ELSE LET l == GroupList(Take(s, e - 1))
               r == GroupList(Drop(s, e + 1))
           IN  IF /\ \A i \in 1..Len(l) : IsField(l[i])
                  /\ \A i \in 1..Len(r) : IsField(r[i])
                  /\ Len(l) + Len(r) < NumGroups6
               THEN Addr("v6", FieldsVal(l \o Zeros(NumGroups6 - Len(l) - Len(r)) \o r))
               ELSE NoAddr

\* netip.parseIPv6: what follows the first "%" is the zone, which may not be
\* empty
ParseIPv6(s) ==
  LET i == IndexByte(s, "%")
  IN  IF i = 0 THEN ParseIPv6Groups(s)
      ELSE IF i = Len(s) THEN NoAddr
      ELSE WithZone(ParseIPv6Groups(Take(s, i - 1)), Drop(s, i))

\* netip.ParseAddr: the first of ".", ":" and "%" decides the family
ParseAddr(s) ==
  LET special == {i \in 1..Len(s) : s[i] \in {".", ":", "%"}}
  IN  IF special = {} THEN NoAddr
      ELSE LET c == s[CHOOSE i \in special : \A j \in special : i <= j]
           IN  CASE c = "." -> ParseIPv4(s)
                 [] c = ":" -> ParseIPv6(s)
                 [] OTHER -> NoAddr

NoPrefix == [err |-> TRUE]
Prefix(fam, val, bits) == [err |-> FALSE, fam |-> fam, val |-> val, bits |-> bits]

\* the decimal number after the "/": digits only, no leading zero
ParseBits(s) ==
  IF Len(s) = 0 \/ Len(s) > 2 \/ \E i \in 1..Len(s) : s[i] \notin DecDigits THEN -1
  ELSE IF Len(s) = 2 /\ s[1] = "0" THEN -1
  ELSE IF Len(s) = 1 THEN DecVal[s[1]]
  ELSE 10 * DecVal[s[1]] + DecVal[s[2]]

\* netip.ParsePrefix: "<addr>/<bits>", the host bits are kept as written, an
\* address with a zone is refused
ParsePrefix(s) ==
  LET i == LastIndexByte(s, "/")
  IN  IF i = 0 THEN NoPrefix
      ELSE LET a == ParseAddr(Take(s, i - 1))
               b == ParseBits(Drop(s, i))
           IN  IF a.err \/ b < 0 THEN NoPrefix
               ELSE IF a.zone # <<>> THEN NoPrefix
               ELSE IF b > BitLen(a.fam) THEN NoPrefix
               ELSE Prefix(a.fam, a.val, b)

\* netip.Prefix.Contains: no zone, same family and no difference left after
\* shifting out the host bits
Contains(p, ip) ==
  /\ ip.zone = <<>>
  /\ p.fam = ip.fam
  /\ (ip.val \div Pow2(BitLen(p.fam) - p.bits)) = (p.val \div Pow2(BitLen(p.fam) - p.bits))

\* ------------------------------------------------------ peer address text
NoSplit == [err |-> TRUE]

\* net.SplitHostPort
SplitHostPort(hostport) ==
  LET i == LastIndexByte(hostport, ":")
  IN  IF i = 0 THEN NoSplit
      ELSE IF hostport[1] = "["
      THEN LET end == IndexByte(hostport, "]")
           IN  IF end = 0 THEN NoSplit
               ELSE IF end + 1 # i THEN NoSplit
               ELSE IF IndexByte(Drop(hostport, 1), "[") # 0 THEN NoSplit
               ELSE IF IndexByte(Drop(hostport, end), "]") # 0 THEN NoSplit
               ELSE [err |-> FALSE, host |-> SubSeq(hostport, 2, end - 1),
                     port |-> Drop(hostport, i)]
      ELSE LET host == Take(hostport, i - 1)
           IN  IF IndexByte(host, ":") # 0 THEN NoSplit
               ELSE IF IndexByte(hostport, "[") # 0 THEN NoSplit
               ELSE IF IndexByte(hostport, "]") # 0 THEN NoSplit
               ELSE [err |-> FALSE, host |-> host, port |-> Drop(hostport, i)]

\* strings.Cut(s, "%"): the text before the first "%"
CutZoneKeepsZone(s) == s

CutZone(s) ==
  LET i == IndexByte(s, "%") IN IF i = 0 THEN s ELSE Take(s, i - 1)

parseIPZoneFromString(address) ==
  LET sp == SplitHostPort(address)
      ipStr == IF sp.err THEN address ELSE sp.host
  IN  ParseAddr(CutZone(ipStr))

\* ------------------------------------------------- the published lists
DigitChar == <<"0", "1", "2", "3">>

\* the n base-4 digits of val, most significant first
RECURSIVE ToFields(_, _)
ToFields(val, n) ==
  IF n = 0 THEN <<>> ELSE ToFields(val \div 4, n - 1) \o <<DigitChar[(val % 4) + 1]>>

RECURSIVE Join(_, _)
Join(fs, sep) ==
  IF Len(fs) = 0 THEN <<>>
  ELSE IF Len(fs) = 1 THEN <<fs[1]>>
  ELSE <<fs[1], sep>> \o Join(Drop(fs, 1), sep)

\* the literal of an address, every field written out
FormatAddr(fam, val) == Join(ToFields(val, NumFields(fam)), Sep(fam))

\* one line of a published list
Line(fam, val, bits) == FormatAddr(fam, val) \o <<"/", DigitChar[bits + 1]>>

BlankLine == <<>>
JunkLine == <<"x">>

\* what the IPv4 endpoint may serve: the lines of the response body
Bodies4 ==
  { <<Line("v4", 4, 2), BlankLine, Line("v4", 14, 3)>>,
    <<Line("v4", 4, 2), JunkLine>> }

\* what the IPv6 endpoint may serve
Bodies6 ==
  { <<Line("v6", 4, 3)>> }

Apis == <<"ipv4", "ipv6">>

\* how one request can go: answered in full, refused, or the connection
\* breaks (transport error, or the request's deadline passes) after col
\* characters of line number line have been read
Outcomes(body) ==
  {[kind |-> "ok"], [kind |-> "doerr"]}
    \cup UNION {{[kind |-> "cut", line |-> j, col |-> c] : c \in 0..Len(body[j])} :
                j \in 1..Len(body)}

\* bufio.Scanner over the body: every complete line, and when the read
\* breaks the text read so far of the line it broke in, if any
ScannerTokens(body, out) ==
  IF out.kind = "ok" THEN body
  ELSE LET part == Take(body[out.line], out.col)
       IN  Take(body, out.line - 1) \o (IF Len(part) = 0 THEN <<>> ELSE <<part>>)

FetchErr == [err |-> TRUE, prefixes |-> <<>>]
FetchOk(ps) == [err |-> FALSE, prefixes |-> ps]

\* the loop of fetch: blank lines skipped, the first bad line ends it
RECURSIVE ScanLoop(_, _)
ScanLoop(tokens, prefixes) ==
  IF Len(tokens) = 0 THEN FetchOk(prefixes)
  ELSE IF Len(tokens[1]) = 0 THEN ScanLoop(Drop(tokens, 1), prefixes)
  ELSE LET prefix == ParsePrefix(tokens[1])
       IN  IF prefix.err THEN FetchErr
           ELSE ScanLoop(Drop(tokens, 1), Append(prefixes, prefix))

\* fetch: the request fails, or the body is scanned to wherever it ends
fetch(body, out) ==
  IF out.kind = "doerr" THEN FetchErr
  ELSE ScanLoop(ScannerTokens(body, out), <<>>)

\* every way a request to an endpoint can go, with what fetch returns then;
\* struck: a transport error or the deadline ended the request
RunsOf(bodies) ==
  UNION {{[struck |-> out.kind # "ok", res |-> fetch(body, out)] :
            out \in Outcomes(body)} : body \in bodies}

Runs4 == RunsOf(Bodies4)
Runs6 == RunsOf(Bodies6)
Runs(api) == IF api = "ipv4" THEN Runs4 ELSE Runs6

\* ------------------------------------------------------ requests' peers
\* the hosts requests come from, as text: literals of both families, one of
\* them with "::", and two texts that are no IP literal
PeerHosts ==
  { FormatAddr("v4", 5), FormatAddr("v4", 0), FormatAddr("v6", 5),
    <<"1", ":", ":", "1">>, <<"x">>, <<>> }

\* the host that is only seen with a port, as net/http writes RemoteAddr
PortOnlyHost == FormatAddr("v6", 5)

\* a zone or a port: none (the empty sequence) or one text
Zones == {<<>>, <<<<"e">>>>}
Ports == {<<>>, <<<<"8">>>>, <<<<>>>>}

\* the text of a peer: host, "%zone" if there is a zone, ":port" if there is
\* a port, an IPv6 host with a port in brackets (net.JoinHostPort)
RemoteAddr(host, zone, port) ==
  LET h == IF Len(zone) = 0 THEN host ELSE host \o <<"%">> \o zone[1]
  IN  IF Len(port) = 0 THEN h
      ELSE IF IndexByte(host, ":") # 0 THEN <<"[">> \o h \o <<"]", ":">> \o port[1]
      ELSE h \o <<":">> \o port[1]

\* the RemoteAddr strings requests arrive with, each with the address its
\* host text alone stands for (an error when that is no IP literal); the
\* last is an IPv6 literal in brackets with no port behind them, which is
\* no literal with a port and no bare literal either
PeerInputs ==
  UNION {{[text |-> RemoteAddr(h, z, p), host |-> ParseAddr(h)] :
            z \in Zones, p \in {q \in Ports : h = PortOnlyHost => Len(q) = 1}} :
         h \in PeerHosts}
    \cup {[text |-> <<"[">> \o FormatAddr("v6", 17) \o <<"]">>, host |-> NoAddr]}

\* the peers as parseIPZoneFromString returns them, each with the address
\* its host text stands for
PeerParses ==
  {[host |-> peer.host, ip |-> parseIPZoneFromString(peer.text)] : peer \in PeerInputs}

\* -------------------------------------------------------------- durations
\* time.Duration values, counted in seconds
Hour == 3600
FifteenSeconds == 15

\* what a configuration gives interval and timeout: a negative duration,
\* nothing or zero, a positive duration
Configs ==
  { [Interval |-> 0, Timeout |-> 0],
    [Interval |-> 1, Timeout |-> -1],
    [Interval |-> -1, Timeout |-> 1] }

\* refreshLoop: s.Interval as it is when the ticker is created
refreshIntervalNonPositive(interval) == IF interval <= 0 THEN Hour ELSE interval

refreshInterval(interval) == IF interval = 0 THEN Hour ELSE interval

\* fetch: the timeout handed to context.WithTimeout
fetchTimeoutNonPositive(timeout) == IF timeout <= 0 THEN FifteenSeconds ELSE timeout

fetchTimeout(timeout) == IF timeout = 0 THEN FifteenSeconds ELSE timeout

\* time.NewTicker panics unless its period is positive
NewTickerPanics(d) == d <= 0

\* context.WithTimeout returns a context that is done already when the
\* deadline is not in the future
DeadlinePassed(timeout) == timeout <= 0

\* ------------------------------------------------------------------ state
VARIABLES
  Interval,       \* CloudflareIPRange.Interval
  Timeout,        \* CloudflareIPRange.Timeout
  config,         \* history: Interval and Timeout as the configuration gave them
  ProvidersRaw,   \* MatchDynamicRemoteIP.ProvidersRaw is set (a source is configured)
  Providers,      \* MatchDynamicRemoteIP.Providers: "nil" or "cf"
  mpc,            \* where the matcher stands: "config" (to be configured),
                  \* "rejected" (UnmarshalCaddyfile returned an error), "new"
                  \* (configured), "loading" (Provision is in LoadModule),
                  \* "failed" (Provision returned an error), "panicked",
                  \* "ready" (Provision returned nil)
  ranges,         \* CloudflareIPRange.ranges, a slice header: [ptr, len]
  lock,           \* CloudflareIPRange.lock: [w, wp, r]
  cancelled,      \* s.ctx is done
  tickPending,    \* a tick waits in ticker.C
  ticked,         \* history: the ticker has fired at least once
  prov,           \* CloudflareIPRange.Provision: [pc, k, full, base, parts]
  loop,           \* CloudflareIPRange.refreshLoop: [pc, k, full, base, parts]
  rd,             \* the Match calls in progress, one per request goroutine:
                  \* [pc, ip, hdr, cur, result, consulted]; hdr is the slice
                  \* header GetIPRanges returns and cur says that its array
                  \* is the one s.ranges points to.  History: host, the
                  \* address the host text of the peer stands for, and seen,
                  \* the prefixes hdr gave access to when it was returned
  lastGood,       \* history: what the last getPrefixes that returned no error returned
  lastInstalled,  \* history: the last snapshot written to s.ranges in full
  outcome,        \* history: [last, done, ever, failed], how the last finished
                  \* cycle ended ("none", "ok", "err"), how many of its fetches
                  \* had returned without error, whether any cycle ever
                  \* succeeded, and how many cycles in a row have failed
                  \* since the last installation, counted up to MaxFailures
  begunAfterCancel, \* history: the last tick cycle was begun when s.ctx was done
  named           \* history: the module the matcher's configuration names,
                  \* "" when it names none

vars == <<ProvidersRaw, Providers, mpc, ranges, lock, cancelled, tickPending,
          ticked, prov, loop, rd, lastGood, lastInstalled, outcome,
          Interval, Timeout, config,
          begunAfterCancel,
          named>>

Readers == 1..NumReaders

\* a slice header over the array arr
Slice(arr) == [ptr |-> arr, len |-> Len(arr)]
NilSlice == Slice(<<>>)

\* the elements a slice header gives access to; an index past its array
\* reads memory that is not part of it
View(h) == [i \in 1..h.len |-> IF i <= Len(h.ptr) THEN h.ptr[i] ELSE NoPrefix]

\* getPrefixes declares full without a value: it is nil, and the first append
\* to it takes a new array.  base says which array full lies in: "fresh", one
\* of the cycle's own, or "installed", the one s.ranges points to.
getPrefixesFullOverInstalled == "installed"

getPrefixesFull == "fresh"

\* a cycle's locals: k endpoints done, full as built so far and the array it
\* lies in; parts is history, the requests of the cycle that have returned,
\* each as in Runs
IdleCycle == [k |-> 0, full |-> <<>>, base |-> getPrefixesFull, parts |-> <<>>]
Proc(pc, c) == [pc |-> pc, k |-> c.k, full |-> c.full, base |-> c.base, parts |-> c.parts]

\* an unrecovered panic has ended the program, every goroutine with it
Crashed == loop.pc = "panicked" \/ mpc = "panicked"

IdleReader == [pc |-> "idle", ip |-> NoAddr, host |-> NoAddr, hdr |-> NilSlice,
               cur |-> FALSE, seen |-> <<>>, result |-> FALSE, consulted |-> FALSE]

Init ==
  /\ config \in Configs
  /\ begunAfterCancel = FALSE
  /\ Interval = config.Interval
  /\ Timeout = config.Timeout
  /\ ProvidersRaw = FALSE
  /\ named = ""
  /\ Providers = "nil"
  /\ mpc = "config"
  /\ ranges = NilSlice
  /\ lock = [w |-> FALSE, wp |-> FALSE, r |-> 0]
  /\ cancelled = FALSE
  /\ tickPending = FALSE
  /\ ticked = FALSE
  /\ prov = Proc("start", IdleCycle)
  /\ loop = Proc("none", IdleCycle)
  /\ rd = [i \in Readers |-> IdleReader]
  /\ lastGood = <<>>
  /\ lastInstalled = <<>>
  /\ outcome = [last |-> "none", done |-> 0, ever |-> FALSE, failed |-> 0]

\* ------------------------------------------ the matcher's configuration
\* the modules registered in the namespace http.ip_sources: the source of
\* this repository and one that does not implement caddyhttp.IPRangeSource
Registered == {"cloudflare", "other"}
IPRangeSources == {"cloudflare"}

\* what a configuration may name: nothing, a registered module, or a module
\* nobody registered
ModuleNames == {"", "cloudflare", "other", "unknown"}

\* MatchDynamicRemoteIP.UnmarshalCaddyfile, name being the argument after
\* the matcher's name ("" when there is none): the error it returns, or "nil"
UnmarshalCaddyfile(name) ==
  IF name = "" THEN "ArgErr"
  ELSE IF name \notin Registered THEN "UnmarshalModule"
  ELSE IF name \notin IPRangeSources THEN "not an IPRangeSource"
  ELSE "nil"

\* the matcher is written in a Caddyfile
MatcherUnmarshalCaddyfile ==
  /\ mpc = "config"
  /\ \E name \in ModuleNames :
       /\ named' = name
       /\ ProvidersRaw' = (UnmarshalCaddyfile(name) = "nil")
       /\ mpc' = IF UnmarshalCaddyfile(name) = "nil" THEN "new" ELSE "rejected"
  /\ UNCHANGED <<Providers, ranges, lock, cancelled, tickPending,
                 ticked, prov, loop, rd, lastGood, lastInstalled, outcome,
                 Interval, Timeout, config, begunAfterCancel>>

\* the matcher is given as JSON: "providers" is absent or names a module
MatcherUnmarshalJSON ==
  /\ mpc = "config"
  /\ \E name \in ModuleNames :
       /\ named' = name
       /\ ProvidersRaw' = (name # "")
  /\ mpc' = "new"
  /\ UNCHANGED <<Providers, ranges, lock, cancelled, tickPending,
                 ticked, prov, loop, rd, lastGood, lastInstalled, outcome,
                 Interval, Timeout, config, begunAfterCancel>>

\* ------------------------------------------- MatchDynamicRemoteIP.Provision
\* no source configured: ProvidersRaw is nil, Providers stays nil
MatcherProvisionNoSource ==
  /\ mpc = "new" /\ ~ProvidersRaw
  /\ mpc' = "ready"
  /\ UNCHANGED <<ProvidersRaw, Providers, ranges, lock, cancelled, tickPending,
                 ticked, prov, loop, rd, lastGood, lastInstalled, outcome,
                 Interval, Timeout, config,
                 begunAfterCancel,
                 named>>

\* ctx.LoadModule returns an error (the module is unknown, or its
\* configuration does not decode): Provision returns it
MatcherLoadModuleFails ==
  /\ mpc = "new" /\ ProvidersRaw
  /\ mpc' = "failed"
  /\ UNCHANGED <<ProvidersRaw, Providers, ranges, lock, cancelled, tickPending,
                 ticked, prov, loop, rd, lastGood, lastInstalled, outcome,
                 Interval, Timeout, config,
                 begunAfterCancel,
                 named>>

\* ctx.LoadModule builds the source and calls its Provision, which sets
\* ctx, logger and lock and goes on to the first getPrefixes
MatcherLoadModule ==
  /\ mpc = "new" /\ ProvidersRaw /\ named = "cloudflare"
  /\ mpc' = "loading"
  /\ prov' = Proc("fetch", IdleCycle)
  /\ UNCHANGED <<ProvidersRaw, Providers, ranges, lock, cancelled, tickPending,
                 ticked, loop, rd, lastGood, lastInstalled, outcome,
                 Interval, Timeout, config,
                 begunAfterCancel,
                 named>>

\* ctx.LoadModule returns a module that is no IPRangeSource: the type
\* assertion val.(caddyhttp.IPRangeSource) panics
MatcherLoadModuleNotSource ==
  /\ mpc = "new" /\ ProvidersRaw
  /\ named \in Registered \ IPRangeSources
  /\ mpc' = "panicked"
  /\ UNCHANGED <<ProvidersRaw, Providers, ranges, lock, cancelled, tickPending,
                 ticked, prov, loop, rd, lastGood, lastInstalled, outcome,
                 Interval, Timeout, config, begunAfterCancel, named>>

\* the source's Provision has returned nil: LoadModule returns the source,
\* which is an IPRangeSource
MatcherProvisionDone ==
  /\ ~Crashed
  /\ mpc = "loading" /\ prov.pc = "returned"
  /\ Providers' = "cf"
  /\ mpc' = "ready"
  /\ UNCHANGED <<ProvidersRaw, ranges, lock, cancelled, tickPending,
                 ticked, prov, loop, rd, lastGood, lastInstalled, outcome,
                 Interval, Timeout, config,
                 begunAfterCancel,
                 named>>

\* ------------------------------------------------------------ getPrefixes
\* one turn of the loop over the endpoints, res being what fetch returned:
\* an error ends the cycle, the last endpoint's prefixes complete it
getPrefixesKeepsGoing(c, res) ==
  LET full == IF res.err THEN c.full ELSE c.full \o res.prefixes
  IN  [status |-> IF c.k + 1 = Len(Apis) THEN "ok" ELSE "more", full |-> full]

getPrefixesNext(c, res) ==
  IF res.err THEN [status |-> "err", full |-> <<>>]
  ELSE [status |-> IF c.k + 1 = Len(Apis) THEN "ok" ELSE "more",
        full |-> c.full \o res.prefixes]

\* append(full, prefixes...) writes into the array full lies in when that has
\* room, and into a new array otherwise
InPlace(c, nxt, installed) ==
  nxt.status # "err" /\ c.base = "installed" /\ Len(nxt.full) <= Len(installed)

\* an array after elems have been written to its first places
Overwrite(arr, elems) ==
  [i \in 1..Len(arr) |-> IF i <= Len(elems) THEN elems[i] ELSE arr[i]]

\* the cycle's locals after that turn
CycleAfter(c, nxt, run) ==
  IF nxt.status = "err" THEN IdleCycle
  ELSE [k |-> c.k + 1, full |-> nxt.full,
        base |-> IF InPlace(c, nxt, ranges.ptr) THEN c.base ELSE "fresh",
        parts |-> Append(c.parts, run)]

\* s.ranges and the slices the Match calls hold after that turn: the array
\* an append has written into shows what was written to whoever points to it
RangesAfterAppend(c, nxt) ==
  IF InPlace(c, nxt, ranges.ptr)
  THEN [ranges EXCEPT !.ptr = Overwrite(@, nxt.full)]
  ELSE ranges

ReadersAfterAppend(c, nxt) ==
  [i \in DOMAIN rd |->
     IF InPlace(c, nxt, ranges.ptr) /\ rd[i].cur
     THEN [rd[i] EXCEPT !.hdr.ptr = Overwrite(@, nxt.full)]
     ELSE rd[i]]

\* the slices the Match calls hold after s.ranges has been pointed to the
\* array of c
ReadersAfterStore(c) ==
  [i \in DOMAIN rd |-> [rd[i] EXCEPT !.cur = @ /\ c.base = "installed"]]

\* the history after a turn that left the cycle, k endpoints done before
\* it, with that status
OutcomeAfter(o, k, status) ==
  CASE status = "ok" ->
         [last |-> "ok", done |-> k + 1, ever |-> TRUE,
          failed |-> IF o.last = "err" THEN o.failed ELSE 0]
    [] status = "err" ->
         [last |-> "err", done |-> k, ever |-> o.ever,
          failed |-> IF o.last = "err" THEN Min(o.failed + 1, MaxFailures) ELSE 1]
    [] OTHER -> o

\* -------------------------------------------- CloudflareIPRange.Provision
\* where Provision goes once the failure of the first cycle is logged
ProvOnErrorReturnsIt == "returned_err"

ProvOnError == "spawn"

\* the context of a request, made by context.WithTimeout(s.ctx, timeout), is
\* done from the start when s.ctx is done or the deadline has passed, and
\* http.DefaultClient.Do then returns its error without sending anything
DoFailsAtOnceDeadlineOnly == DeadlinePassed(fetchTimeout(Timeout))

DoFailsAtOnce == cancelled \/ DeadlinePassed(fetchTimeout(Timeout))

\* http.DefaultClient.Do is called for the next endpoint
ProvFetchStart ==
  /\ prov.pc = "fetch" /\ ~DoFailsAtOnce
  /\ prov' = [prov EXCEPT !.pc = "wait"]
  /\ UNCHANGED <<ProvidersRaw, Providers, mpc, ranges, lock, cancelled, tickPending,
                 ticked, loop, rd, lastGood, lastInstalled, outcome,
                 Interval, Timeout, config,
                 begunAfterCancel,
                 named>>

\* the context is done already: Do returns its error, getPrefixes fails,
\* the error is logged
ProvFetchCancelled ==
  /\ prov.pc = "fetch" /\ DoFailsAtOnce
  /\ prov' = Proc(ProvOnError, IdleCycle)
  /\ outcome' = OutcomeAfter(outcome, prov.k, "err")
  /\ UNCHANGED <<ProvidersRaw, Providers, mpc, ranges, lock, cancelled, tickPending,
                 ticked, loop, rd, lastGood, lastInstalled,
                 Interval, Timeout, config,
                 begunAfterCancel,
                 named>>

\* the request ends one way or another and fetch returns
ProvFetchReturn ==
  /\ prov.pc = "wait"
  /\ \E run \in Runs(Apis[prov.k + 1]) :
       LET nxt == getPrefixesNext(prov, run.res)
           c == CycleAfter(prov, nxt, run)
       IN  /\ prov' = Proc(CASE nxt.status = "err" -> ProvOnError
                             [] nxt.status = "more" -> "fetch"
                             [] OTHER -> "store_ptr", c)
           /\ lastGood' = IF nxt.status = "ok" THEN nxt.full ELSE lastGood
           /\ ranges' = RangesAfterAppend(prov, nxt)
           /\ rd' = ReadersAfterAppend(prov, nxt)
           /\ outcome' = OutcomeAfter(outcome, prov.k, nxt.status)
  /\ UNCHANGED <<ProvidersRaw, Providers, mpc, lock, cancelled, tickPending,
                 ticked, loop, lastInstalled,
                 Interval, Timeout, config,
                 begunAfterCancel,
                 named>>

\* s.ranges = initialRanges, without the lock: the pointer word ...
ProvStorePtr ==
  /\ prov.pc = "store_ptr"
  /\ ranges' = [ranges EXCEPT !.ptr = prov.full]
  /\ rd' = ReadersAfterStore(prov)
  /\ prov' = [prov EXCEPT !.pc = "store_len"]
  /\ UNCHANGED <<ProvidersRaw, Providers, mpc, lock, cancelled, tickPending,
                 ticked, loop, lastGood, lastInstalled, outcome,
                 Interval, Timeout, config,
                 begunAfterCancel,
                 named>>

\* ... and the length word
ProvStoreLen ==
  /\ prov.pc = "store_len"
  /\ ranges' = [ranges EXCEPT !.len = Len(prov.full)]
  /\ lastInstalled' = prov.full
  /\ prov' = Proc("spawn", IdleCycle)
  /\ UNCHANGED <<ProvidersRaw, Providers, mpc, lock, cancelled, tickPending,
                 ticked, loop, rd, lastGood, outcome,
                 Interval, Timeout, config,
                 begunAfterCancel,
                 named>>

\* go s.refreshLoop(); return nil
ProvSpawn ==
  /\ prov.pc = "spawn"
  /\ prov' = [prov EXCEPT !.pc = "returned"]
  /\ loop' = Proc("start", IdleCycle)
  /\ UNCHANGED <<ProvidersRaw, Providers, mpc, ranges, lock, cancelled, tickPending,
                 ticked, rd, lastGood, lastInstalled, outcome,
                 Interval, Timeout, config,
                 begunAfterCancel,
                 named>>

\* ------------------------------------------------------------ sync.RWMutex
\* RLock waits while a writer holds the lock or waits for it
CanRLockUnguarded(l) == TRUE

CanRLock(l) == ~l.w /\ ~l.wp

\* Lock, once announced, waits for the readers to leave
CanLockIgnoresReaders(l) == ~l.w

CanLock(l) == l.r = 0 /\ ~l.w

\* ------------------------------------------ CloudflareIPRange.refreshLoop
\* where refreshLoop goes once the failure of a tick cycle is logged:
\* continue
LoopOnErrorReturns == "exited"

LoopOnError == "select"

\* s.ranges after a cycle that failed: the loop continues, nothing is written
RangesAfterFailureCleared(r) == NilSlice

RangesAfterFailure(r) == r

\* the head of refreshLoop: a zero s.Interval becomes an hour and the ticker
\* is created, or time.NewTicker panics and the program dies with the
\* goroutine
LoopStart ==
  /\ loop.pc = "start"
  /\ Interval' = refreshInterval(Interval)
  /\ loop' = Proc(IF NewTickerPanics(refreshInterval(Interval)) THEN "panicked"
                  ELSE "select", IdleCycle)
  /\ UNCHANGED <<ProvidersRaw, Providers, mpc, ranges, lock, cancelled, tickPending,
                 ticked, prov, rd, lastGood, lastInstalled, outcome,
                 Timeout, config,
                 begunAfterCancel,
                 named>>

\* the ticker fires; a tick not yet taken is not doubled
Tick ==
  /\ loop.pc \notin {"none", "start", "panicked", "exited"}
  /\ ~tickPending
  /\ tickPending' = TRUE
  /\ ticked' = TRUE
  /\ UNCHANGED <<ProvidersRaw, Providers, mpc, ranges, lock, cancelled,
                 prov, loop, rd, lastGood, lastInstalled, outcome,
                 Interval, Timeout, config,
                 begunAfterCancel,
                 named>>

\* the host cancels the context the source was provisioned with
Cancel ==
  /\ ~Crashed
  /\ prov.pc # "start" /\ ~cancelled
  /\ cancelled' = TRUE
  /\ UNCHANGED <<ProvidersRaw, Providers, mpc, ranges, lock, tickPending,
                 ticked, prov, loop, rd, lastGood, lastInstalled, outcome,
                 Interval, Timeout, config,
                 begunAfterCancel,
                 named>>

\* select takes case <-ticker.C
LoopSelectTickLocking ==
  /\ loop.pc = "select" /\ tickPending /\ CanLock(lock)
  /\ tickPending' = FALSE
  /\ lock' = [lock EXCEPT !.w = TRUE]
  /\ loop' = Proc("fetch", IdleCycle)
  /\ UNCHANGED <<ProvidersRaw, Providers, mpc, ranges, cancelled,
                 ticked, prov, rd, lastGood, lastInstalled, outcome,
                 Interval, Timeout, config,
                 begunAfterCancel,
                 named>>

LoopSelectTick ==
  /\ loop.pc = "select" /\ tickPending
  /\ tickPending' = FALSE
  /\ begunAfterCancel' = cancelled
  /\ loop' = Proc("fetch", IdleCycle)
  /\ UNCHANGED <<ProvidersRaw, Providers, mpc, ranges, lock, cancelled,
                 ticked, prov, rd, lastGood, lastInstalled, outcome,
                 Interval, Timeout, config,
                 named>>

\* select takes case <-s.ctx.Done()
LoopSelectDoneLoopsOn ==
  /\ loop.pc = "select" /\ cancelled
  /\ loop' = Proc("select", IdleCycle)
  /\ UNCHANGED <<ProvidersRaw, Providers, mpc, ranges, lock, cancelled, tickPending,
                 ticked, prov, rd, lastGood, lastInstalled, outcome,
                 Interval, Timeout, config,
                 begunAfterCancel,
                 named>>

LoopSelectDone ==
  /\ loop.pc = "select" /\ cancelled
  /\ loop' = Proc("exited", IdleCycle)
  /\ UNCHANGED <<ProvidersRaw, Providers, mpc, ranges, lock, cancelled, tickPending,
                 ticked, prov, rd, lastGood, lastInstalled, outcome,
                 Interval, Timeout, config,
                 begunAfterCancel,
                 named>>

LoopFetchStart ==
  /\ loop.pc = "fetch" /\ ~DoFailsAtOnce
  /\ loop' = [loop EXCEPT !.pc = "wait"]
  /\ UNCHANGED <<ProvidersRaw, Providers, mpc, ranges, lock, cancelled, tickPending,
                 ticked, prov, rd, lastGood, lastInstalled, outcome,
                 Interval, Timeout, config,
                 begunAfterCancel,
                 named>>

\* the context is done already: Do returns its error, getPrefixes fails,
\* the warning is logged, continue
LoopFetchCancelled ==
  /\ loop.pc = "fetch" /\ DoFailsAtOnce
  /\ loop' = Proc(LoopOnError, IdleCycle)
  /\ ranges' = RangesAfterFailure(ranges)
  /\ outcome' = OutcomeAfter(outcome, loop.k, "err")
  /\ UNCHANGED <<ProvidersRaw, Providers, mpc, lock, cancelled, tickPending,
                 ticked, prov, rd, lastGood, lastInstalled,
                 Interval, Timeout, config,
                 begunAfterCancel,
                 named>>

LoopFetchReturn ==
  /\ loop.pc = "wait"
  /\ \E run \in Runs(Apis[loop.k + 1]) :
       LET nxt == getPrefixesNext(loop, run.res)
           c == CycleAfter(loop, nxt, run)
       IN  /\ loop' = Proc(CASE nxt.status = "err" -> LoopOnError
                             [] nxt.status = "more" -> "fetch"
                             [] OTHER -> "lock", c)
           /\ lastGood' = IF nxt.status = "ok" THEN nxt.full ELSE lastGood
           /\ ranges' = IF nxt.status = "err" THEN RangesAfterFailure(ranges)
                        ELSE RangesAfterAppend(loop, nxt)
           /\ rd' = ReadersAfterAppend(loop, nxt)
           /\ outcome' = OutcomeAfter(outcome, loop.k, nxt.status)
  /\ UNCHANGED <<ProvidersRaw, Providers, mpc, lock, cancelled, tickPending,
                 ticked, prov, lastInstalled,
                 Interval, Timeout, config,
                 begunAfterCancel,
                 named>>

\* s.lock.Lock(): the writer announces itself ...
LoopLock ==
  /\ loop.pc = "lock"
  /\ lock' = [lock EXCEPT !.wp = TRUE]
  /\ loop' = [loop EXCEPT !.pc = "lockwait"]
  /\ UNCHANGED <<ProvidersRaw, Providers, mpc, ranges, cancelled, tickPending,
                 ticked, prov, rd, lastGood, lastInstalled, outcome,
                 Interval, Timeout, config,
                 begunAfterCancel,
                 named>>

\* ... and has the lock once no reader holds it
LoopLockAcquire ==
  /\ loop.pc = "lockwait" /\ CanLock(lock)
  /\ lock' = [lock EXCEPT !.w = TRUE, !.wp = FALSE]
  /\ loop' = [loop EXCEPT !.pc = "store_ptr"]
  /\ UNCHANGED <<ProvidersRaw, Providers, mpc, ranges, cancelled, tickPending,
                 ticked, prov, rd, lastGood, lastInstalled, outcome,
                 Interval, Timeout, config,
                 begunAfterCancel,
                 named>>

\* s.ranges = newRanges: the pointer word ...
LoopStorePtr ==
  /\ loop.pc = "store_ptr"
  /\ ranges' = [ranges EXCEPT !.ptr = loop.full]
  /\ rd' = ReadersAfterStore(loop)
  /\ loop' = [loop EXCEPT !.pc = "store_len"]
  /\ UNCHANGED <<ProvidersRaw, Providers, mpc, lock, cancelled, tickPending,
                 ticked, prov, lastGood, lastInstalled, outcome,
                 Interval, Timeout, config,
                 begunAfterCancel,
                 named>>

\* ... and the length word
LoopStoreLen ==
  /\ loop.pc = "store_len"
  /\ ranges' = [ranges EXCEPT !.len = Len(loop.full)]
  /\ lastInstalled' = loop.full
  /\ loop' = [loop EXCEPT !.pc = "unlock"]
  /\ UNCHANGED <<ProvidersRaw, Providers, mpc, lock, cancelled, tickPending,
                 ticked, prov, rd, lastGood, outcome,
                 Interval, Timeout, config,
                 begunAfterCancel,
                 named>>

\* s.lock.Unlock(), the debug line, and back to the select; the count of
\* failures starts again
LoopUnlock ==
  /\ loop.pc = "unlock"
  /\ lock' = [lock EXCEPT !.w = FALSE]
  /\ loop' = Proc("select", IdleCycle)
  /\ outcome' = [outcome EXCEPT !.failed = 0]
  /\ UNCHANGED <<ProvidersRaw, Providers, mpc, ranges, cancelled, tickPending,
                 ticked, prov, rd, lastGood, lastInstalled,
                 Interval, Timeout, config,
                 begunAfterCancel,
                 named>>

\* ----------------------------------------------- MatchDynamicRemoteIP.Match
\* the loop over cidrs from index i on
MatchLoopFirstOnly(cidrs, remoteIP, i) ==
  IF i > Len(cidrs) THEN FALSE
  ELSE IF ~cidrs[i].err /\ Contains(cidrs[i], remoteIP) THEN TRUE
  ELSE FALSE

MatchLoopEmptyMatchesAll(cidrs, remoteIP, i) ==
  \/ Len(cidrs) = 0
  \/ \E k \in i..Len(cidrs) : ~cidrs[k].err /\ Contains(cidrs[k], remoteIP)

RECURSIVE MatchLoop(_, _, _)
MatchLoop(cidrs, remoteIP, i) ==
  IF i > Len(cidrs) THEN FALSE
  ELSE IF ~cidrs[i].err /\ Contains(cidrs[i], remoteIP) THEN TRUE
  ELSE MatchLoop(cidrs, remoteIP, i + 1)

\* what Match does before it asks the source: "false" (parse error, logged),
\* "nosource" (Providers == nil) or "ask"
MatchEntryIgnoresError(ip, providers) ==
  IF providers = "nil" THEN "nosource" ELSE "ask"

MatchEntryNoNilCheck(ip, providers) ==
  IF ip.err THEN "false" ELSE "ask"

MatchEntry(ip, providers) ==
  IF ip.err THEN "false"
  ELSE IF providers = "nil" THEN "nosource"
  ELSE "ask"

\* a request reaches the provisioned matcher: lines 52 to 61
MatchStart(i) ==
  /\ ~Crashed
  /\ mpc = "ready" /\ rd[i].pc = "idle"
  /\ \E peer \in PeerParses :
       LET e == MatchEntry(peer.ip, Providers)
       IN  rd' = [rd EXCEPT ![i] =
                    [IdleReader EXCEPT !.pc = IF e = "ask" THEN "rlock" ELSE "done",
                                       !.ip = peer.ip, !.host = peer.host]]
  /\ UNCHANGED <<ProvidersRaw, Providers, mpc, ranges, lock, cancelled, tickPending,
                 ticked, prov, loop, lastGood, lastInstalled, outcome,
                 Interval, Timeout, config,
                 begunAfterCancel,
                 named>>

\* GetIPRanges: s.lock.RLock()
GetIPRangesRLock(i) ==
  /\ ~Crashed
  /\ rd[i].pc = "rlock" /\ CanRLock(lock)
  /\ lock' = [lock EXCEPT !.r = @ + 1]
  /\ rd' = [rd EXCEPT ![i].pc = "read_ptr", ![i].consulted = TRUE]
  /\ UNCHANGED <<ProvidersRaw, Providers, mpc, ranges, cancelled, tickPending,
                 ticked, prov, loop, lastGood, lastInstalled, outcome,
                 Interval, Timeout, config,
                 begunAfterCancel,
                 named>>

\* return s.ranges: the pointer word is read ...
GetIPRangesReadPtr(i) ==
  /\ ~Crashed
  /\ rd[i].pc = "read_ptr"
  /\ rd' = [rd EXCEPT ![i].pc = "read_len", ![i].hdr.ptr = ranges.ptr,
                      ![i].cur = TRUE]
  /\ UNCHANGED <<ProvidersRaw, Providers, mpc, ranges, lock, cancelled, tickPending,
                 ticked, prov, loop, lastGood, lastInstalled, outcome,
                 Interval, Timeout, config,
                 begunAfterCancel,
                 named>>

\* ... and the length word
GetIPRangesReadLen(i) ==
  /\ ~Crashed
  /\ rd[i].pc = "read_len"
  /\ rd' = [rd EXCEPT ![i].pc = "runlock", ![i].hdr.len = ranges.len]
  /\ UNCHANGED <<ProvidersRaw, Providers, mpc, ranges, lock, cancelled, tickPending,
                 ticked, prov, loop, lastGood, lastInstalled, outcome,
                 Interval, Timeout, config,
                 begunAfterCancel,
                 named>>

\* the deferred s.lock.RUnlock(): GetIPRanges returns the slice
GetIPRangesReturn(i) ==
  /\ ~Crashed
  /\ rd[i].pc = "runlock"
  /\ lock' = [lock EXCEPT !.r = @ - 1]
  /\ rd' = [rd EXCEPT ![i].pc = "matching", ![i].seen = View(rd[i].hdr)]
  /\ UNCHANGED <<ProvidersRaw, Providers, mpc, ranges, cancelled, tickPending,
                 ticked, prov, loop, lastGood, lastInstalled, outcome,
                 Interval, Timeout, config,
                 begunAfterCancel,
                 named>>

\* Match's loop over what was returned
MatchFinish(i) ==
  /\ ~Crashed
  /\ rd[i].pc = "matching"
  /\ rd' = [rd EXCEPT ![i].pc = "done",
                      ![i].result = MatchLoop(View(rd[i].hdr), rd[i].ip, 1)]
  /\ UNCHANGED <<ProvidersRaw, Providers, mpc, ranges, lock, cancelled, tickPending,
                 ticked, prov, loop, lastGood, lastInstalled, outcome,
                 Interval, Timeout, config,
                 begunAfterCancel,
                 named>>

\* the caller has the answer
MatchReturn(i) ==
  /\ ~Crashed
  /\ rd[i].pc = "done"
  /\ rd' = [rd EXCEPT ![i] = IdleReader]
  /\ UNCHANGED <<ProvidersRaw, Providers, mpc, ranges, lock, cancelled, tickPending,
                 ticked, prov, loop, lastGood, lastInstalled, outcome,
                 Interval, Timeout, config,
                 begunAfterCancel,
                 named>>

\* ---------------------------------------------------------- specification
Next ==
  \/ MatcherUnmarshalCaddyfile
  \/ MatcherUnmarshalJSON
  \/ MatcherProvisionNoSource
  \/ MatcherLoadModuleFails
  \/ MatcherLoadModule
  \/ MatcherLoadModuleNotSource
  \/ MatcherProvisionDone
  \/ ProvFetchStart
  \/ ProvFetchCancelled
  \/ ProvFetchReturn
  \/ ProvStorePtr
  \/ ProvStoreLen
  \/ ProvSpawn
  \/ LoopStart
  \/ Tick
  \/ Cancel
  \/ LoopSelectTick
  \/ LoopSelectDone
  \/ LoopFetchStart
  \/ LoopFetchCancelled
  \/ LoopFetchReturn
  \/ LoopLock
  \/ LoopLockAcquire
  \/ LoopStorePtr
  \/ LoopStoreLen
  \/ LoopUnlock
  \/ \E i \in Readers : MatchStart(i)
  \/ \E i \in Readers : GetIPRangesRLock(i)
  \/ \E i \in Readers : GetIPRangesReadPtr(i)
  \/ \E i \in Readers : GetIPRangesReadLen(i)
  \/ \E i \in Readers : GetIPRangesReturn(i)
  \/ \E i \in Readers : MatchFinish(i)
  \/ \E i \in Readers : MatchReturn(i)

Spec == Init /\ [][Next]_vars

\* The refresh goroutine is scheduled again and again, so is every request
\* goroutine that holds the read lock; a request on the network ends, by its
\* deadline at the latest; and a select that finds s.ctx.Done() ready time
\* after time takes that case in the end, since it picks among its ready
\* cases at random.
LoopFairness ==
  /\ WF_vars(LoopSelectTick)
  /\ SF_vars(LoopSelectDone)
  /\ WF_vars(LoopFetchStart)
  /\ WF_vars(LoopFetchCancelled)
  /\ WF_vars(LoopFetchReturn)
  /\ WF_vars(LoopLock)
  /\ WF_vars(LoopLockAcquire)
  /\ WF_vars(LoopStorePtr)
  /\ WF_vars(LoopStoreLen)
  /\ WF_vars(LoopUnlock)
  /\ \A i \in Readers :
       /\ WF_vars(GetIPRangesReadPtr(i))
       /\ WF_vars(GetIPRangesReadLen(i))
       /\ WF_vars(GetIPRangesReturn(i))

FairSpec == Spec /\ LoopFairness

\* ------------------------------------------------------------------ claims
\* the refresh loop has been through at least one tick cycle and waits again
TickCycleOver == loop.pc = "select" /\ ticked /\ ~tickPending

\* nothing stands between a successful getPrefixes and the end of the write
\* of what it returned
NoInstallPending ==
  /\ prov.pc \notin {"store_ptr", "store_len"}
  /\ loop.pc \notin {"lock", "lockwait", "store_ptr", "store_len"}

\* C1: whenever no installation is under way, s.ranges is what the most
\* recent cycle that succeeded returned, and empty if none ever succeeded;
\* a cycle that fails leaves it alone.
C1_SnapshotIsLastGoodCycle ==
  NoInstallPending => ranges = Slice(lastGood)

\* a tick cycle has failed after an earlier cycle had installed prefixes
C1_Witness ==
  /\ TickCycleOver /\ outcome.last = "err" /\ outcome.ever
  /\ lastGood # <<>> /\ ranges = Slice(lastGood)

\* the cycles on their way to an installation, or just through it
Installing ==
  {c \in {prov, loop} : c.pc \in {"lock", "lockwait", "store_ptr", "store_len", "unlock"}}

\* C2: a cycle gets to install only what both endpoints' fetches returned
\* without error in that same cycle, the IPv4 prefixes then the IPv6 ones;
\* after a cycle whose IPv4 fetch returned prefixes and whose IPv6 fetch
\* returned an error s.ranges is what it was before.
C2_AllOrNothing ==
  /\ \A c \in Installing :
       /\ Len(c.parts) = Len(Apis)
       /\ \A i \in 1..Len(c.parts) : ~c.parts[i].res.err
       /\ c.parts[1].res \in {r.res : r \in Runs4}
       /\ c.parts[2].res \in {r.res : r \in Runs6}
       /\ c.full = c.parts[1].res.prefixes \o c.parts[2].res.prefixes
  /\ (outcome.last = "err" /\ outcome.done = 1 /\ NoInstallPending) =>
       ranges = Slice(lastGood)

\* a tick cycle whose IPv4 fetch succeeded and whose IPv6 fetch failed has
\* ended, and the snapshot is the earlier one, of both families
C2_Witness ==
  /\ TickCycleOver /\ outcome.last = "err" /\ outcome.done = 1 /\ outcome.ever
  /\ ranges = Slice(lastGood) /\ Len(lastGood) > 1

\* C3 (as claimed): a request struck by a transport error or by its deadline
\* makes fetch return an error, so no cycle goes on past such a request.
C3_StruckFetchAbortsCycle ==
  \A c \in {prov, loop} :
    \A i \in 1..Len(c.parts) : c.parts[i].struck => c.parts[i].res.err

\* C4: the slice header a GetIPRanges call is about to return is a snapshot
\* written in full, the last one; never the pointer of one and the length of
\* another.
C4_NoTornRead ==
  \A i \in Readers : rd[i].pc = "runlock" => rd[i].hdr = Slice(lastInstalled)

\* a call returns the old snapshot while the refresh loop waits for the lock
\* with a different one
C4_Witness ==
  \E i \in Readers :
    /\ rd[i].pc = "runlock" /\ rd[i].hdr.len > 0
    /\ loop.pc = "lockwait" /\ Len(loop.full) # rd[i].hdr.len

\* a is in the block of p: same family, same bits above the host bits
InBlock(p, a) ==
  LET host == Pow2(BitLen(p.fam) - p.bits)
  IN  p.fam = a.fam /\ a.val - (a.val % host) = p.val - (p.val % host)

\* the Match calls that have asked the source and are done
Answered == {i \in Readers : rd[i].pc = "done" /\ rd[i].consulted}

\* C5: a Match call that parsed the peer and asked the source answers true
\* exactly when some prefix of the snapshot it was given holds the address.
C5_MatchIffSomePrefixContains ==
  \A i \in Answered :
    rd[i].result <=> \E k \in 1..rd[i].hdr.len : InBlock(View(rd[i].hdr)[k], rd[i].ip)

\* a call answered true though the first prefix of the snapshot does not hold
\* the address
C5_Witness ==
  \E i \in Answered :
    /\ rd[i].result /\ rd[i].hdr.len > 1
    /\ ~InBlock(rd[i].hdr.ptr[1], rd[i].ip)

\* C6: a Match call whose peer address did not parse is over at once, with
\* false, and has not called GetIPRanges.
C6_UnparseablePeerFailsClosed ==
  \A i \in Readers :
    (rd[i].pc # "idle" /\ rd[i].ip.err) =>
      rd[i].pc = "done" /\ ~rd[i].result /\ ~rd[i].consulted

\* such a call is over while the source holds prefixes
C6_Witness ==
  \E i \in Readers :
    /\ rd[i].pc = "done" /\ rd[i].ip.err /\ ~rd[i].result
    /\ Providers = "cf" /\ ranges.len > 0

\* C7: while no cycle has succeeded, s.ranges is empty, GetIPRanges returns
\* an empty slice and no Match call answers true.
C7_NoSuccessNoMatch ==
  (prov.pc = "returned" /\ ~outcome.ever) =>
    /\ ranges = NilSlice
    /\ \A i \in Readers :
         /\ rd[i].pc \in {"runlock", "matching", "done"} => rd[i].hdr.len = 0
         /\ rd[i].pc = "done" => ~rd[i].result

\* the first cycle and a tick cycle have failed, and a call for a valid peer
\* has asked the source and answered false
C7_Witness ==
  /\ TickCycleOver /\ ~outcome.ever /\ outcome.last = "err"
  /\ \E i \in Answered : ~rd[i].ip.err /\ ~rd[i].result

\* C8: with no source configured every Match call is over at once, with
\* false.
C8_NoSourceNoMatch ==
  Providers = "nil" =>
    \A i \in Readers :
      /\ rd[i].pc \in {"idle", "done"}
      /\ ~rd[i].result /\ ~rd[i].consulted

\* a call for a valid peer is over at a matcher provisioned without a source
C8_Witness ==
  /\ ~ProvidersRaw /\ mpc = "ready"
  /\ \E i \in Readers : rd[i].pc = "done" /\ ~rd[i].ip.err /\ ~rd[i].result

\* a request of a fetch cycle is on the network
InFlight == prov.pc = "wait" \/ loop.pc = "wait"

\* C9: while a request of a fetch cycle is on the network the lock is
\* neither held nor asked for by the writer, and every GetIPRanges call that
\* wants the read lock can take it.
C9_FetchNeverHoldsLock ==
  InFlight =>
    /\ ~lock.w /\ ~lock.wp
    /\ \A i \in Readers : rd[i].pc = "rlock" => ENABLED GetIPRangesRLock(i)

\* a call returns the installed snapshot while a refresh request is on the
\* network
C9_Witness ==
  /\ loop.pc = "wait"
  /\ \E i \in Readers : rd[i].pc = "runlock" /\ rd[i].hdr.len > 0

\* C10: Provision never ends with an error; when it has returned the
\* refresh loop is started, and before the first tick s.ranges is what the
\* first cycle returned if it succeeded and empty if it failed.
C10_ProvisionAlwaysSucceeds ==
  /\ prov.pc \in {"start", "fetch", "wait", "store_ptr", "store_len", "spawn", "returned"}
  /\ prov.pc = "returned" =>
       /\ loop.pc # "none"
       /\ outcome.last # "none"
       /\ ~ticked =>
            \/ outcome.last = "ok" /\ ranges = Slice(lastGood)
            \/ outcome.last = "err" /\ ranges = NilSlice

\* the first cycle has failed, Provision has returned, the loop waits for
\* its first tick and the matcher is ready with the source
C10_Witness ==
  /\ prov.pc = "returned" /\ outcome.last = "err" /\ ~ticked
  /\ loop.pc = "select" /\ mpc = "ready" /\ Providers = "cf"

\* the refresh loop has got past the creation of its ticker
LoopStarted == loop.pc \notin {"none", "start", "panicked"}

\* C11: the refresh loop ends only once s.ctx is done, and once s.ctx is
\* done the loop, if it is running, ends in the end.
C11_LoopEndsOnCancelOnly ==
  /\ [](loop.pc = "exited" => cancelled)
  /\ (cancelled /\ LoopStarted) ~> (loop.pc = "exited")

\* s.ctx was cancelled while a request of a tick cycle was on the network,
\* and the loop has ended
C11_Witness ==
  /\ loop.pc = "exited" /\ cancelled /\ ticked
  /\ outcome.last = "err" /\ outcome.ever

\* C12: a tick cycle begun when s.ctx was done already, as the select may
\* do when a tick is pending too, gets no request onto the network, completes
\* no fetch and installs nothing: it fails at its first request and the loop
\* is back at the select, or gone.
C12_NoCycleAfterCancel ==
  begunAfterCancel =>
    /\ loop.pc \in {"fetch", "select", "exited"}
    /\ loop.k = 0 /\ loop.full = <<>>

\* the select took a pending tick though s.ctx was done, the cycle has
\* failed and s.ranges is what it was
C12_Witness ==
  /\ begunAfterCancel /\ loop.pc = "select" /\ outcome.last = "err"
  /\ lastGood # <<>> /\ ranges = Slice(lastGood)

\* C13 (as claimed): the ticker's period is the configured interval when that
\* is positive and an hour otherwise, a request's timeout is the configured
\* timeout when that is positive and fifteen seconds otherwise; the refresh
\* loop always gets started and no request is expired from the start.
C13_NonPositiveFallsBackToDefault ==
  /\ loop.pc # "panicked"
  /\ LoopStarted => Interval = refreshIntervalNonPositive(config.Interval)
  /\ fetchTimeout(Timeout) = fetchTimeoutNonPositive(config.Timeout)
  /\ ~DeadlinePassed(fetchTimeout(Timeout))

\* C14: whatever port and zone the peer text carries, parseIPZoneFromString
\* returns the address of its host text, without zone, and an error when the
\* host text is no IP literal; so a Match call that asked the source answers
\* as it would for the bare host.
C14_PortAndZoneDiscarded ==
  \A i \in Readers :
    rd[i].pc # "idle" =>
      /\ rd[i].ip = rd[i].host
      /\ ~rd[i].ip.err => rd[i].ip.zone = <<>>
      /\ i \in Answered =>
           (rd[i].result <=>
              \E k \in 1..rd[i].hdr.len : InBlock(View(rd[i].hdr)[k], rd[i].host))

\* a call for the peer that is only seen in brackets with a port, with and
\* without a zone, has answered true
C14_Witness ==
  \E i \in Answered :
    rd[i].result /\ rd[i].host = ParseAddr(PortOnlyHost)

\* C15: the step that ends a tick cycle in failure puts the loop back at
\* its select, with s.ranges and the lock as they were and the lock free; at
\* the select a tick that comes is taken; and a tick cycle that succeeds,
\* after however many failures, has its result in s.ranges when it unlocks.
C15_FailedCycleKeepsLoopGoing ==
  /\ [][(loop.pc \in {"fetch", "wait"} /\ loop'.pc \notin {"fetch", "wait", "lock"}) =>
          /\ loop' = Proc("select", IdleCycle)
          /\ ranges' = ranges /\ lock' = lock /\ ~lock.w /\ ~lock.wp]_vars
  /\ []((loop.pc = "select" /\ tickPending) => ENABLED LoopSelectTick)
  /\ []((loop.pc = "select" /\ ~tickPending) => ENABLED Tick)
  /\ [](loop.pc = "unlock" => ranges = Slice(loop.full) /\ loop.full = lastGood)

\* MaxFailures cycles in a row had failed, then a tick cycle succeeded and its
\* result is the snapshot
C15_Witness ==
  /\ loop.pc = "unlock" /\ outcome.last = "ok" /\ outcome.failed = MaxFailures
  /\ ranges = Slice(loop.full) /\ loop.full # <<>>

\* the goroutines inside an assignment to s.ranges, inside the read of it in
\* GetIPRanges, and inside a fetch cycle
Writing == {c \in {"prov", "loop"} :
              (IF c = "prov" THEN prov.pc ELSE loop.pc) \in {"store_ptr", "store_len"}}
Reading == {i \in Readers : rd[i].pc \in {"read_ptr", "read_len"}}
Fetching == {c \in {"prov", "loop"} :
               (IF c = "prov" THEN prov.pc ELSE loop.pc) \in {"fetch", "wait"}}

\* C16: Provision is through with its cycle and its unlocked write before
\* the refresh loop exists and before any request can reach the source; at
\* most one fetch cycle is in progress; the refresh loop writes s.ranges with
\* the lock held for writing; and no write of s.ranges is under way while a
\* GetIPRanges call reads it or another write is under way.
C16_WritesNeverOverlap ==
  /\ prov.pc \in {"fetch", "wait", "store_ptr", "store_len", "spawn"} =>
       /\ loop.pc = "none"
       /\ Providers = "nil" /\ \A i \in Readers : rd[i].pc = "idle"
  /\ Cardinality(Fetching) <= 1
  /\ loop.pc \in {"store_ptr", "store_len", "unlock"} => lock.w /\ lock.r = 0
  /\ Cardinality(Writing) <= 1
  /\ Writing # {} => Reading = {}
  /\ lock.r = Cardinality({i \in Readers : rd[i].pc \in {"read_ptr", "read_len", "runlock"}})

\* the refresh loop is inside its write while a request waits for the read
\* lock
C16_Witness ==
  /\ loop.pc = "store_len" /\ lock.w
  /\ \E i \in Readers : rd[i].pc = "rlock"

\* the Match calls that hold a slice GetIPRanges has returned
Holding == {i \in Readers : rd[i].pc \in {"matching", "done"} /\ rd[i].consulted}

\* C17: every cycle starts its slice from nothing; what s.ranges gives
\* access to changes only by an installation; a step of a Match call leaves
\* s.ranges alone; and the slice a Match call holds gives the prefixes it
\* gave when GetIPRanges returned it, whatever has been fetched or installed
\* since.
C17_InstalledSnapshotNeverChanges ==
  /\ [](\A c \in {prov, loop} : c.k = 0 => c.full = <<>>)
  /\ [](\A i \in Holding : View(rd[i].hdr) = rd[i].seen)
  /\ [][(\E i \in Readers : rd'[i].pc # rd[i].pc) => ranges' = ranges]_vars
  /\ [][(NoInstallPending /\ NoInstallPending') => View(ranges') = View(ranges)]_vars

\* a Match call still holds the snapshot it was given while s.ranges has
\* been pointed to a later one
C17_Witness ==
  /\ NoInstallPending /\ ranges.len > 0
  /\ \E i \in Holding :
       /\ rd[i].pc = "matching" /\ ~rd[i].cur
       /\ rd[i].hdr.len > 0 /\ rd[i].hdr # ranges

\* C18 (as claimed): when the configured module cannot be loaded or is no
\* IPRangeSource, Provision ends by returning an error, and
\* UnmarshalCaddyfile returns an error for a module that is no
\* IPRangeSource.
C18_BadSourceIsAnError ==
  /\ UnmarshalCaddyfile("other") # "nil"
  /\ (named \notin IPRangeSources /\ ProvidersRaw /\ mpc # "new") => mpc = "failed"

====
